---- MODULE Spec2Model ----
(***************************************************************************)
(* Model of src/main.py: a FastAPI relay in front of the Alpha Vantage     *)
(* market-data API and a Groq chat model.                                  *)
(*                                                                         *)
(* Conventions.  A Python str is a sequence of one-character strings.      *)
(* A price is an integer number of thousandths (10004 is 10.004); a value  *)
(* rounded to two decimals is an integer number of hundredths.  Arithmetic *)
(* is exact; the inputs avoid the ties (a third decimal of 5, a product    *)
(* equal to the adjusted close through an inexact quotient) on which IEEE  *)
(* doubles and exact rationals could disagree.  A dict lookup of a missing key, float() of a *)
(* non-numeric string and a membership test on a scalar raise, as in       *)
(* Python; what raises is modelled as a result record (t = "exc").         *)
(***************************************************************************)
EXTENDS Integers, Sequences, FiniteSets, TLC

VARIABLES
    env,                    \* os.environ after load_dotenv()
    phase,                  \* "boot", "failed" (import raised), "serving"
    ALPHA_VANTAGE_API_KEY,  \* module global, main.py:27
    GROQ_API_KEY,           \* module global, main.py:31
    llm,                    \* module global, main.py:44
    request,                \* the HTTP request being handled
    pc,                     \* "idle", "fetching", "llm", "done"
    symbol_list,            \* get_multiple_quotes: the split symbol list
    idx,                    \* get_multiple_quotes: entries processed so far
    quotes,                 \* get_multiple_quotes: quotes collected so far
    calls,                  \* upstream GETs issued while handling the request
    fetched,                \* last upstream outcome and what fetch made of it
    results,                \* per list entry: did the upstream succeed
    llm_calls,              \* prompts passed to llm.invoke in this request
    response,               \* the HTTP response of the request
    date_str,               \* format_date: argument
    formatted               \* format_date: result

vars == <<env, phase, ALPHA_VANTAGE_API_KEY, GROQ_API_KEY, llm, request, pc,
          symbol_list, idx, quotes, calls, fetched, results, llm_calls,
          response, date_str, formatted>>

----------------------------------------------------------------------------
(* Bounds of the model *)

\* longest "symbols" query string of a batch request
MaxQueryLen == 3
\* most dates in a provider time series
MaxDates == 2
\* longest free-form string handed to format_date
MaxShortLen == 2

----------------------------------------------------------------------------
(* Python str operations *)

\* code point of a character, for str comparison
Ord(c) ==
    CASE c = " " -> 32 [] c = "," -> 44 [] c = "-" -> 45 [] c = "/" -> 47
      [] c = "0" -> 48 [] c = "1" -> 49 [] c = "2" -> 50 [] c = "3" -> 51
      [] c = "4" -> 52 [] c = "5" -> 53 [] c = "6" -> 54 [] c = "7" -> 55
      [] c = "8" -> 56 [] c = "9" -> 57 [] c = "A" -> 65 [] c = "B" -> 66
      [] c = "a" -> 97 [] c = "b" -> 98 [] OTHER -> 120

\* str.upper() on one character
UpperChar(c) == CASE c = "a" -> "A" [] c = "b" -> "B" [] OTHER -> c

\* s.upper()
Upper(s) == [i \in 1..Len(s) |-> UpperChar(s[i])]

RECURSIVE LStrip(_)
LStrip(s) == IF s # <<>> /\ Head(s) = " " THEN LStrip(Tail(s)) ELSE s

RECURSIVE RStrip(_)
RStrip(s) ==
    IF s # <<>> /\ s[Len(s)] = " " THEN RStrip(SubSeq(s, 1, Len(s) - 1)) ELSE s

\* s.strip()
Strip(s) == RStrip(LStrip(s))

\* s.split(sep): one more part than there are separators in s
RECURSIVE Split(_, _)
Split(s, sep) ==
    IF s = <<>> THEN << <<>> >>
    ELSE LET rest == Split(Tail(s), sep)
         IN  IF Head(s) = sep THEN << <<>> >> \o rest
             ELSE << <<Head(s)>> \o Head(rest) >> \o Tail(rest)

\* a < b as Python compares two str
RECURSIVE StrLess(_, _)
StrLess(a, b) ==
    IF b = <<>> THEN FALSE
    ELSE IF a = <<>> THEN TRUE
    ELSE IF Ord(Head(a)) # Ord(Head(b)) THEN Ord(Head(a)) < Ord(Head(b))
    ELSE StrLess(Tail(a), Tail(b))

\* all strings over alphabet of length n
RECURSIVE StringsOfLen(_, _)
StringsOfLen(alphabet, n) ==
    IF n = 0 THEN { <<>> }
    ELSE { <<c>> \o s : c \in alphabet, s \in StringsOfLen(alphabet, n - 1) }

\* round(x, 2) of x = num/den thousandths, in hundredths
RoundDiv(num, den) ==
    LET q == num \div den
        r == num % den
    IN  IF 2 * r < den THEN q
        ELSE IF 2 * r > den THEN q + 1
        ELSE IF q % 2 = 0 THEN q ELSE q + 1

Round2(milli) == RoundDiv(milli, 10)

----------------------------------------------------------------------------
(* Module initialisation, main.py:25-44 *)

EnvNames == {"ALPHA_VANTAGE_PREM_API_KEY", "GROQ_API_KEY"}

\* os.getenv gives None for an unset name; None and "" are both falsy
Unset == "<None>"
EnvValues == {Unset, "", "sk-live"}

Falsy(v) == v \in {Unset, ""}

NoLLM == [groq_api_key |-> Unset, model_name |-> "", max_tokens |-> 0]

get_chat_llm(key) ==
    [groq_api_key |-> key, model_name |-> "llama3-8b-8192", max_tokens |-> 300]

----------------------------------------------------------------------------
(* What the provider can answer to one GET *)

\* a JSON field holding a numeric string, a non-numeric string, or missing
Num(v) == [k |-> "num", v |-> v]
Text == [k |-> "text", v |-> 0]
Missing == [k |-> "absent", v |-> 0]

\* float(d[key]) / int(d[key]) succeeds
Parses(f) == f.k = "num"

Sentinels == {"Error Message", "Note", "Information"}

\* the value under "Global Quote"
QuoteWith(sym, price, change, volume) ==
    [empty |-> FALSE, symbol |-> sym, price |-> price, change |-> change,
     changePercent |-> Num(-817), open |-> Num(151000), high |-> Num(152336),
     low |-> Num(149004), volume |-> volume]

QEmpty ==
    [empty |-> TRUE, symbol |-> FALSE, price |-> Missing, change |-> Missing,
     changePercent |-> Missing, open |-> Missing, high |-> Missing,
     low |-> Missing, volume |-> Missing]

GoodQuotes ==
    { QuoteWith(TRUE, Num(150126), Num(-1234), Num(1200)),
      QuoteWith(TRUE, Num(99994), Num(2500), Num(1200)) }

BadQuotes ==
    { QEmpty,
      QuoteWith(FALSE, Num(150126), Num(-1234), Num(1200)),
      QuoteWith(TRUE, Text, Num(-1234), Num(1200)),
      QuoteWith(TRUE, Num(150126), Missing, Num(1200)),
      QuoteWith(TRUE, Num(150126), Num(-1234), Missing) }

\* one day of "Time Series (Daily)"
Rows ==
    { [open |-> Num(o), high |-> Num(10010), low |-> Num(9990),
       close |-> Num(c), adjclose |-> Num(a), volume |-> Num(1200),
       split |-> s] :
        o \in {10004, 9996}, c \in {0, 10001}, a \in {10001, 5000},
        s \in {Missing, Num(2000)} }
    \cup
    { [open |-> Num(10004), high |-> Num(10010), low |-> Num(9990),
       close |-> Num(10001), adjclose |-> Missing, volume |-> Num(1200),
       split |-> Missing] }

\* ISO dates the provider uses as keys
DateKeys ==
    { <<"2","0","2","4","-","0","3","-","0","5">>,
      <<"2","0","2","4","-","1","0","-","0","1">>,
      <<"2","0","2","3","-","1","2","-","3","1">> }

NoSeries == [d \in {} |-> Missing]

SeriesSet ==
    UNION { [D -> Rows] : D \in { E \in SUBSET DateKeys : Cardinality(E) <= MaxDates } }

NoPayload == [p |-> "none", quote |-> QEmpty, series |-> NoSeries]
QuotePayload(q) == [p |-> "quote", quote |-> q, series |-> NoSeries]
SeriesPayload(ts) == [p |-> "series", quote |-> QEmpty, series |-> ts]

\* a decoded JSON object: the sentinel keys it carries and its other content
Object(keys, payload) ==
    [t |-> "object", raises |-> "", keys |-> keys, payload |-> payload]

NoData == [t |-> "none", raises |-> "", keys |-> {}, payload |-> NoPayload]

\* requests.get raises (timeout=15 or transport); response.json() raises
\* (a RequestException from requests 2.27 on, a ValueError before); the
\* body decodes to null, a number or a boolean; the body decodes to an object
Failures ==
    { [t |-> "timeout", raises |-> "RequestException", keys |-> {},
       payload |-> NoPayload],
      [t |-> "connect", raises |-> "RequestException", keys |-> {},
       payload |-> NoPayload],
      [t |-> "undecodable", raises |-> "RequestException", keys |-> {},
       payload |-> NoPayload],
      [t |-> "undecodable", raises |-> "ValueError", keys |-> {},
       payload |-> NoPayload],
      [t |-> "scalar", raises |-> "", keys |-> {}, payload |-> NoPayload] }

SentinelBodies ==
    { Object(K, p) : K \in SUBSET Sentinels,
                     p \in {NoPayload} \cup { QuotePayload(q) : q \in GoodQuotes } }

QuoteBodies == { Object({}, QuotePayload(q)) : q \in GoodQuotes \cup BadQuotes }

SeriesBodies == { Object({}, SeriesPayload(ts)) : ts \in SeriesSet }

OneSeriesBody == Object({}, SeriesPayload(NoSeries))

\* outcomes offered to the quote endpoints, and to the chart endpoint
QuoteOutcomes == Failures \cup SentinelBodies \cup QuoteBodies \cup {OneSeriesBody}
ChartOutcomes == QuoteOutcomes \cup SeriesBodies

----------------------------------------------------------------------------
(* fetch_alpha_vantage_data, main.py:52-84 *)

NoDetail == [msg |-> "", arg |-> <<>>]

Return(data) ==
    [t |-> "return", status |-> 0, detail |-> NoDetail, exc |-> "", data |-> data]
Http(status, msg, arg) ==
    [t |-> "http", status |-> status, detail |-> [msg |-> msg, arg |-> arg],
     exc |-> "", data |-> NoData]
Raise(exc) ==
    [t |-> "exc", status |-> 0, detail |-> NoDetail, exc |-> exc, data |-> NoData]

NoResult == [t |-> "none", status |-> 0, detail |-> NoDetail, exc |-> "", data |-> NoData]

\* params_dict of the GET, main.py:56-61
ParamsDict(function, symbol, outputsize) ==
    [function |-> function, symbol |-> symbol,
     apikey |-> ALPHA_VANTAGE_API_KEY, outputsize |-> outputsize]

\* faulty variant: the note key tested before the error key
ClassifyBodyNoteFirst(symbol, o) ==
    IF "Note" \in o.keys THEN
        Http(429, "API rate limit exceeded", <<>>)
    ELSE IF "Error Message" \in o.keys THEN
        Http(404, "Stock symbol not found", symbol)
    ELSE IF "Information" \in o.keys THEN
        Http(429, "API call frequency limit reached", <<>>)
    ELSE Return(o)

\* main.py:70-80: the sentinel tests, in the order written
ClassifyBody(symbol, o) ==
    IF "Error Message" \in o.keys THEN
        Http(404, "Stock symbol not found", symbol)
    ELSE IF "Note" \in o.keys THEN
        Http(429, "API rate limit exceeded", <<>>)
    ELSE IF "Information" \in o.keys THEN
        Http(429, "API call frequency limit reached", <<>>)
    ELSE Return(o)

\* what the call gives its caller when the provider answers o
fetch_alpha_vantage_data(symbol, o) ==
    CASE o.t \in {"timeout", "connect"} ->
            Http(503, "External API service unavailable", <<>>)
      [] o.t = "undecodable" ->
            IF o.raises = "RequestException"
            THEN Http(503, "External API service unavailable", <<>>)
            ELSE Raise("ValueError")
      [] o.t = "scalar" -> Raise("TypeError")
      [] OTHER -> ClassifyBody(symbol, o)

----------------------------------------------------------------------------
(* HTTP responses *)

NoResponse == [status |-> 0, body |-> [t |-> "none"]]

\* an HTTPException(status_code, detail) as FastAPI answers it
HttpError(status, detail) ==
    [status |-> status, body |-> [t |-> "detail", detail |-> detail]]

\* any other exception leaving a handler: Starlette's plain 500
InternalServerError ==
    [status |-> 500, body |-> [t |-> "detail",
                               detail |-> [msg |-> "Internal Server Error", arg |-> <<>>]]]

\* what a handler without try/except does with a failed fetch: nothing
Propagate(r) ==
    IF r.t = "http" THEN HttpError(r.status, r.detail) ELSE InternalServerError

\* `not data` for a dict: it has no key at all
EmptyDict(data) == data.keys = {} /\ data.payload.p = "none"

----------------------------------------------------------------------------
(* get_stock_chart, main.py:91-147 *)

UpColor == "rgba(38, 166, 154, 0.4)"
DownColor == "rgba(239, 83, 80, 0.4)"

\* faulty variant: sorted(..., reverse=True)
RECURSIVE SortedDescending(_)
SortedDescending(S) ==
    IF S = {} THEN <<>>
    ELSE LET m == CHOOSE x \in S : \A y \in S : x = y \/ StrLess(y, x)
         IN  <<m>> \o SortedDescending(S \ {m})

\* sorted(S), main.py:109
RECURSIVE Sorted(_)
Sorted(S) ==
    IF S = {} THEN <<>>
    ELSE LET m == CHOOSE x \in S : \A y \in S : x = y \/ StrLess(x, y)
         IN  <<m>> \o Sorted(S \ {m})

\* main.py:114-116, 125-127, 133: every float()/int() of the row succeeds
RowOK(row) ==
    /\ row.split.k # "text"
    /\ Parses(row.adjclose) /\ Parses(row.close) /\ Parses(row.open)
    /\ Parses(row.high) /\ Parses(row.low) /\ Parses(row.volume)

\* main.py:114: row.get('8. split coefficient', 1.0)
split_coefficient(row) == IF row.split.k = "absent" THEN 1000 ELSE row.split.v

\* main.py:118-121, as the fraction <<numerator, denominator>>
adjustment_factor(row) ==
    IF row.close.v # 0 THEN <<row.adjclose.v, row.close.v>>
    ELSE <<split_coefficient(row), 1000>>

\* round(float(x) * adjustment_factor, 2)
Scaled(x, f) == RoundDiv(x * f[1], f[2] * 10)

\* main.py:123-129
Candle(date, row) ==
    LET f == adjustment_factor(row)
    IN  [time |-> date,
         open |-> Scaled(row.open.v, f),
         high |-> Scaled(row.high.v, f),
         low |-> Scaled(row.low.v, f),
         close |-> Round2(row.adjclose.v)]

\* faulty variant: the colour taken from the rounded values
VolumeColorRounded(row) ==
    IF Round2(row.adjclose.v) >= Scaled(row.open.v, adjustment_factor(row))
    THEN UpColor ELSE DownColor

\* main.py:134: adjusted_close >= float(row['1. open']) * adjustment_factor
VolumeColor(row) ==
    LET f == adjustment_factor(row)
    IN  IF row.adjclose.v * f[2] >= row.open.v * f[1] THEN UpColor ELSE DownColor

\* main.py:131-135
VolumeBar(date, row) ==
    [time |-> date, value |-> row.volume.v, color |-> VolumeColor(row)]

\* faulty variant: newest date first
AllDatesDescending(time_series) == SortedDescending(DOMAIN time_series)

\* main.py:109
AllDates(time_series) == Sorted(DOMAIN time_series)

\* faulty variant: the output size chosen by the range hint
ChartCallByRange(symbol, range_period) ==
    ParamsDict("TIME_SERIES_DAILY_ADJUSTED", Upper(symbol),
               IF range_period = Unset THEN "full" ELSE "compact")

\* the GET of main.py:98
ChartCall(symbol, range_period) ==
    ParamsDict("TIME_SERIES_DAILY_ADJUSTED", Upper(symbol), "full")

\* main.py:100-147, on the data fetch returned
ChartBody(symbol, range_period, data) ==
    IF EmptyDict(data) \/ data.payload.p # "series" THEN
        HttpError(404, [msg |-> "No chart data found", arg |-> symbol])
    ELSE
        LET time_series == data.payload.series
            all_dates == AllDates(time_series)
        IN  IF \E d \in DOMAIN time_series : ~RowOK(time_series[d]) THEN
                InternalServerError
            ELSE
                [status |-> 200,
                 body |-> [t |-> "chart",
                           candleData |-> [i \in 1..Len(all_dates) |->
                               Candle(all_dates[i], time_series[all_dates[i]])],
                           volumeData |-> [i \in 1..Len(all_dates) |->
                               VolumeBar(all_dates[i], time_series[all_dates[i]])],
                           requestedRange |-> range_period,
                           dataType |-> "daily"]]

\* faulty variant: a failed fetch answered as "no chart data"
get_stock_chart_catching(symbol, range_period, r) ==
    IF r.t = "return" THEN ChartBody(symbol, range_period, r.data)
    ELSE HttpError(404, [msg |-> "No chart data found", arg |-> symbol])

\* the handler after the await of main.py:98, r being the fetch's result
get_stock_chart(symbol, range_period, r) ==
    IF r.t = "return" THEN ChartBody(symbol, range_period, r.data)
    ELSE Propagate(r)

----------------------------------------------------------------------------
(* get_stock_quote, main.py:150-181 *)

QuoteCall(symbol) == ParamsDict("GLOBAL_QUOTE", symbol, Unset)

QuoteBody(symbol, data) ==
    IF EmptyDict(data) \/ data.payload.p # "quote" THEN
        HttpError(404, [msg |-> "No quote data found", arg |-> symbol])
    ELSE
        LET quote == data.payload.quote
        IN  IF quote.empty \/ ~quote.symbol THEN
                HttpError(404, [msg |-> "Invalid quote data", arg |-> symbol])
            ELSE IF \E f \in {quote.price, quote.change, quote.changePercent,
                              quote.open, quote.high, quote.low, quote.volume} :
                        ~Parses(f) THEN
                InternalServerError
            ELSE
                [status |-> 200,
                 body |-> [t |-> "quote",
                           symbol |-> Upper(symbol),
                           name |-> Upper(symbol) \o <<" ", "I", "n", "c", ".">>,
                           sector |-> "Technology",
                           price |-> Round2(quote.price.v),
                           change |-> Round2(quote.change.v),
                           changePercent |-> Round2(quote.changePercent.v),
                           open |-> Round2(quote.open.v),
                           high |-> Round2(quote.high.v),
                           low |-> Round2(quote.low.v),
                           volume |-> quote.volume.v,
                           marketCap |-> "1000000000000"]]

get_stock_quote(symbol, r) ==
    IF r.t = "return" THEN QuoteBody(symbol, r.data) ELSE Propagate(r)

----------------------------------------------------------------------------
(* get_multiple_quotes, main.py:183-215 *)

\* main.py:186
SymbolList(symbols) ==
    LET parts == Split(symbols, ",")
    IN  [i \in 1..Len(parts) |-> Upper(Strip(parts[i]))]

\* faulty variant: the "01. symbol" test left out
BatchAppendUnchecked(symbol, r) ==
    IF r.t # "return" THEN <<>>
    ELSE IF EmptyDict(r.data) \/ r.data.payload.p # "quote" THEN <<>>
    ELSE LET quote == r.data.payload.quote
         IN  IF quote.empty THEN <<>>
             ELSE IF \E f \in {quote.price, quote.change, quote.changePercent} :
                        ~Parses(f) THEN <<>>
             ELSE << [symbol |-> symbol,
                      price |-> Round2(quote.price.v),
                      change |-> Round2(quote.change.v),
                      changePercent |-> Round2(quote.changePercent.v)] >>

\* main.py:192-210: what one pass of the loop appends to quotes
BatchAppend(symbol, r) ==
    IF r.t # "return" THEN <<>>
    ELSE IF EmptyDict(r.data) \/ r.data.payload.p # "quote" THEN <<>>
    ELSE LET quote == r.data.payload.quote
         IN  IF quote.empty \/ ~quote.symbol THEN <<>>
             ELSE IF \E f \in {quote.price, quote.change, quote.changePercent} :
                        ~Parses(f) THEN <<>>
             ELSE << [symbol |-> symbol,
                      price |-> Round2(quote.price.v),
                      change |-> Round2(quote.change.v),
                      changePercent |-> Round2(quote.changePercent.v)] >>

\* faulty variant: a failed entry is fetched again
NextEntryRetrying(i, r) == IF r.t = "return" THEN i + 1 ELSE i

\* main.py:191, 208-210: the loop moves to the next entry, whatever happened
NextEntry(i, r) == i + 1

\* main.py:212-215
BatchResponse(qs) ==
    IF qs = <<>> THEN
        HttpError(404, [msg |-> "No valid quotes found for provided symbols",
                        arg |-> <<>>])
    ELSE [status |-> 200, body |-> [t |-> "quotes", quotes |-> qs]]

----------------------------------------------------------------------------
(* analyze_stock, main.py:217-262 *)

\* the date strings of timeRange seen by the handler
Iso0305 == <<"2","0","2","4","-","0","3","-","0","5">>
Iso1001 == <<"2","0","2","4","-","1","0","-","0","1">>
Loose == <<"2","0","2","4","-","3","-","0","5","0">>
Slashed == <<"2","0","2","4","/","0","3","/","0","5">>

TimeRanges ==
    { [k \in {} |-> <<>>],
      [k \in {"startTime", "endTime"} |-> IF k = "startTime" THEN Iso0305 ELSE Iso1001],
      [k \in {"startTime", "endTime"} |-> IF k = "startTime" THEN Loose ELSE Slashed],
      [k \in {"startTime"} |-> Iso0305] }

\* an element of priceData: a record with or without "close", or a bare number
Point(close) == [k |-> "dict", close |-> close]
BarePoint == [k |-> "number", close |-> Missing]

PriceLists ==
    { <<>>,
      <<Point(Num(100000)), Point(Num(150000)), Point(Num(90000))>>,
      <<Point(Missing), Point(Num(0))>>,
      <<Point(Num(100000)), BarePoint>>,
      <<Point(Text)>> }

\* the JSON body as posted: each field present with the declared type,
\* present with another type, or absent
Bodies ==
    [symbol : {[k |-> "str", v |-> <<"a">>], [k |-> "absent", v |-> <<>>],
               [k |-> "list", v |-> <<>>]},
     userQuery : {[k |-> "str", v |-> <<"b">>], [k |-> "absent", v |-> <<>>]},
     timeRange : {[k |-> "dict", v |-> tr] : tr \in TimeRanges}
                 \cup {[k |-> "absent", v |-> [x \in {} |-> <<>>]],
                       [k |-> "str", v |-> [x \in {} |-> <<>>]]},
     priceData : {[k |-> "list", v |-> pl] : pl \in PriceLists}
                 \cup {[k |-> "absent", v |-> <<>>], [k |-> "dict", v |-> <<>>]}]

NoBody ==
    [symbol |-> [k |-> "absent", v |-> <<>>],
     userQuery |-> [k |-> "absent", v |-> <<>>],
     timeRange |-> [k |-> "absent", v |-> [x \in {} |-> <<>>]],
     priceData |-> [k |-> "absent", v |-> <<>>]]

\* main.py:46-50, 218: FastAPI builds the AnalyzeRequest before calling the
\* handler and answers 422 itself when the body does not validate
Validates(body) ==
    /\ body.symbol.k = "str"
    /\ body.userQuery.k = "str"
    /\ body.timeRange.k = "dict"
    /\ body.priceData.k = "list"

UnprocessableEntity ==
    [status |-> 422, body |-> [t |-> "detail",
                               detail |-> [msg |-> "validation error", arg |-> <<>>]]]

\* main.py:239-244
format_date(s) ==
    IF Len(s) = 10 THEN
        LET parts == Split(s, "-")
        IN  IF Len(parts) = 3
            THEN parts[3] \o <<"-">> \o parts[2] \o <<"-">> \o parts[1]
            ELSE s
    ELSE s

\* dict.get(key, '')
GetOr(d, key) == IF key \in DOMAIN d THEN d[key] ELSE <<>>

\* point.get('close', 0)
CloseOf(point) == IF point.close.k = "absent" THEN Num(0) ELSE point.close

MaxOf(S) == CHOOSE x \in S : \A y \in S : y <= x
MinOf(S) == CHOOSE x \in S : \A y \in S : x <= y

NoPrompt ==
    [symbol |-> <<>>, start_date |-> <<>>, end_date |-> <<>>, start_price |-> 0,
     end_price |-> 0, volatility |-> 0, high_price |-> 0, low_price |-> 0,
     user_query |-> <<>>]

\* main.py:221-253: the prompt, or the exception raised on the way
BuildPrompt(body) ==
    LET price_data == body.priceData.v
        closes == [i \in 1..Len(price_data) |-> CloseOf(price_data[i])]
        values == { closes[i].v : i \in 1..Len(closes) }
        high_price == IF price_data = <<>> THEN 0 ELSE MaxOf(values)
        low_price == IF price_data = <<>> THEN 0 ELSE MinOf(values)
    IN  IF \E i \in 1..Len(price_data) : price_data[i].k # "dict" THEN
            [raised |-> "AttributeError", prompt |-> NoPrompt]
        ELSE IF \E i \in 1..Len(closes) : ~Parses(closes[i]) THEN
            [raised |-> "TypeError", prompt |-> NoPrompt]
        ELSE
            [raised |-> "",
             prompt |->
                [symbol |-> Upper(body.symbol.v),
                 start_date |-> format_date(GetOr(body.timeRange.v, "startTime")),
                 end_date |-> format_date(GetOr(body.timeRange.v, "endTime")),
                 start_price |-> IF price_data = <<>> THEN 0 ELSE Round2(closes[1].v),
                 end_price |-> IF price_data = <<>> THEN 0
                               ELSE Round2(closes[Len(closes)].v),
                 volatility |-> IF low_price > 0
                                THEN RoundDiv((high_price - low_price) * 10000, low_price)
                                ELSE 0,
                 high_price |-> Round2(high_price),
                 low_price |-> Round2(low_price),
                 user_query |-> body.userQuery.v]]

\* faulty variant: the failure answered 404
AnalysisFailedAs404(emsg) ==
    HttpError(404, [msg |-> "Analysis failed: ", arg |-> <<emsg>>])

\* main.py:260-262
AnalysisFailed(emsg) ==
    HttpError(500, [msg |-> "Analysis failed: ", arg |-> <<emsg>>])

\* what llm.invoke does: a message with .content, an object without, or raises
LLMOutcomes ==
    { [t |-> "content", text |-> "analysis text"],
      [t |-> "object", text |-> "repr of the response"],
      [t |-> "raise", text |-> "groq: service unavailable"] }

\* main.py:255-262
AnalyzeResponse(out) ==
    IF out.t = "raise" THEN AnalysisFailed(out.text)
    ELSE [status |-> 200, body |-> [t |-> "analysis", analysis |-> out.text]]

----------------------------------------------------------------------------
(* The server as a state machine *)

\* what the HTTP client can send
SymbolInputs == { <<"a">>, <<"B", "b">> }
RangeInputs == { Unset, "1M", "1Y" }
QueryAlphabet == { "a", "b", " ", "," }
QueryInputs == UNION { StringsOfLen(QueryAlphabet, n) : n \in 0..MaxQueryLen }

NoRequest ==
    [endpoint |-> "none", symbol |-> <<>>, range_period |-> Unset,
     symbols |-> <<>>, body |-> NoBody]

NoFetch == [outcome |-> NoData, result |-> NoResult]

\* the per-request state before and after a request
Idle ==
    /\ request = NoRequest
    /\ pc = "idle"
    /\ symbol_list = <<>>
    /\ idx = 0
    /\ quotes = <<>>
    /\ calls = <<>>
    /\ fetched = NoFetch
    /\ results = <<>>
    /\ llm_calls = <<>>
    /\ response = NoResponse

Init ==
    /\ env \in [EnvNames -> EnvValues]
    /\ phase = "boot"
    /\ ALPHA_VANTAGE_API_KEY = Unset
    /\ GROQ_API_KEY = Unset
    /\ llm = NoLLM
    /\ Idle
    /\ date_str = <<>>
    /\ formatted = [done |-> FALSE, out |-> <<>>]

\* faulty variant: the key is not tested
KeyCheckSkipped(v) == FALSE

\* main.py:28, 32: `if not KEY`
KeyMissing(v) == Falsy(v)

\* main.py:25-44: importing the module; a raise ends the process
Startup ==
    /\ phase = "boot"
    /\ LET av == env["ALPHA_VANTAGE_PREM_API_KEY"]
           groq == env["GROQ_API_KEY"]
       IN  /\ ALPHA_VANTAGE_API_KEY' = av
           /\ IF KeyMissing(av) THEN
                  /\ phase' = "failed"
                  /\ UNCHANGED <<GROQ_API_KEY, llm>>
              ELSE
                  /\ GROQ_API_KEY' = groq
                  /\ IF KeyMissing(groq) THEN
                         /\ phase' = "failed"
                         /\ UNCHANGED llm
                     ELSE
                         /\ llm' = get_chat_llm(groq)
                         /\ phase' = "serving"
    /\ UNCHANGED <<env, request, pc, symbol_list, idx, quotes, calls, fetched,
                   results, llm_calls, response, date_str, formatted>>

Accepting == phase = "serving" /\ pc = "idle"

config == <<env, phase, ALPHA_VANTAGE_API_KEY, GROQ_API_KEY, llm>>

\* main.py:87-89
RootRequest ==
    /\ Accepting
    /\ request' = [NoRequest EXCEPT !.endpoint = "root"]
    /\ response' = [status |-> 200,
                    body |-> [t |-> "message",
                              message |-> "Stock API Server with Alpha Vantage"]]
    /\ pc' = "done"
    /\ UNCHANGED <<config, symbol_list, idx, quotes, calls, fetched, results,
                   llm_calls, date_str, formatted>>

\* main.py:91-98: up to the await
ChartRequest ==
    /\ Accepting
    /\ \E symbol \in SymbolInputs, range_period \in RangeInputs :
        /\ request' = [NoRequest EXCEPT !.endpoint = "chart", !.symbol = symbol,
                                        !.range_period = range_period]
        /\ calls' = <<ChartCall(symbol, range_period)>>
    /\ pc' = "fetching"
    /\ UNCHANGED <<config, symbol_list, idx, quotes, fetched, results,
                   llm_calls, response, date_str, formatted>>

\* main.py:98-147: the fetch ends and the handler runs to its end
ChartReturn ==
    /\ pc = "fetching" /\ request.endpoint = "chart"
    /\ \E o \in ChartOutcomes :
        LET r == fetch_alpha_vantage_data(Upper(request.symbol), o)
        IN  /\ fetched' = [outcome |-> o, result |-> r]
            /\ response' = get_stock_chart(request.symbol, request.range_period, r)
    /\ pc' = "done"
    /\ UNCHANGED <<config, request, symbol_list, idx, quotes, calls, results,
                   llm_calls, date_str, formatted>>

\* main.py:150-155: up to the await
QuoteRequest ==
    /\ Accepting
    /\ \E symbol \in SymbolInputs :
        /\ request' = [NoRequest EXCEPT !.endpoint = "quote", !.symbol = symbol]
        /\ calls' = <<QuoteCall(Upper(symbol))>>
    /\ pc' = "fetching"
    /\ UNCHANGED <<config, symbol_list, idx, quotes, fetched, results,
                   llm_calls, response, date_str, formatted>>

\* main.py:155-181
QuoteReturn ==
    /\ pc = "fetching" /\ request.endpoint = "quote"
    /\ \E o \in QuoteOutcomes :
        LET r == fetch_alpha_vantage_data(Upper(request.symbol), o)
        IN  /\ fetched' = [outcome |-> o, result |-> r]
            /\ response' = get_stock_quote(request.symbol, r)
    /\ pc' = "done"
    /\ UNCHANGED <<config, request, symbol_list, idx, quotes, calls, results,
                   llm_calls, date_str, formatted>>

\* the provider answered with a usable quote: an object without sentinel
\* key whose "Global Quote" has the symbol and numeric price fields
ProviderSucceeded(o) ==
    /\ o.t = "object" /\ o.keys = {} /\ o.payload.p = "quote"
    /\ ~o.payload.quote.empty /\ o.payload.quote.symbol
    /\ Parses(o.payload.quote.price) /\ Parses(o.payload.quote.change)
    /\ Parses(o.payload.quote.changePercent)

\* the record kept of one upstream answer
Observed(o) ==
    [ok |-> ProviderSucceeded(o),
     quote |-> IF ProviderSucceeded(o) THEN o.payload.quote ELSE QEmpty]

\* main.py:183-193: the list is split and the first fetch awaited
BatchRequest ==
    /\ Accepting
    /\ \E symbols \in QueryInputs :
        /\ request' = [NoRequest EXCEPT !.endpoint = "batch", !.symbols = symbols]
        /\ symbol_list' = SymbolList(symbols)
        /\ calls' = <<QuoteCall(SymbolList(symbols)[1])>>
    /\ idx' = 0
    /\ quotes' = <<>>
    /\ pc' = "fetching"
    /\ UNCHANGED <<config, fetched, results, llm_calls, response, date_str,
                   formatted>>

\* main.py:191-215: one fetch ends, the loop body runs, and either the next
\* fetch is awaited or the response is returned
BatchReturn ==
    /\ pc = "fetching" /\ request.endpoint = "batch"
    /\ \E o \in QuoteOutcomes :
        LET symbol == symbol_list[idx + 1]
            r == fetch_alpha_vantage_data(symbol, o)
            qs == quotes \o BatchAppend(symbol, r)
            n == NextEntry(idx, r)
        IN  /\ fetched' = [outcome |-> o, result |-> r]
            /\ results' = Append(results, Observed(o))
            /\ quotes' = qs
            /\ idx' = n
            /\ IF n < Len(symbol_list) THEN
                   /\ calls' = Append(calls, QuoteCall(symbol_list[n + 1]))
                   /\ pc' = "fetching"
                   /\ UNCHANGED response
               ELSE
                   /\ response' = BatchResponse(qs)
                   /\ pc' = "done"
                   /\ UNCHANGED calls
    /\ UNCHANGED <<config, request, symbol_list, llm_calls, date_str, formatted>>

\* main.py:217-255: validation, the prompt, and the call of llm.invoke
AnalyzeStockRequest ==
    /\ Accepting
    /\ \E body \in Bodies :
        /\ request' = [NoRequest EXCEPT !.endpoint = "analyze", !.body = body]
        /\ IF ~Validates(body) THEN
               /\ response' = UnprocessableEntity
               /\ pc' = "done"
               /\ UNCHANGED llm_calls
           ELSE IF BuildPrompt(body).raised # "" THEN
               /\ response' = AnalysisFailed(BuildPrompt(body).raised)
               /\ pc' = "done"
               /\ UNCHANGED llm_calls
           ELSE
               /\ llm_calls' = <<[prompt |-> BuildPrompt(body).prompt,
                                  groq_api_key |-> llm.groq_api_key]>>
               /\ pc' = "llm"
               /\ UNCHANGED response
    /\ UNCHANGED <<config, symbol_list, idx, quotes, calls, fetched, results,
                   date_str, formatted>>

\* main.py:255-262
LLMReturn ==
    /\ pc = "llm"
    /\ \E out \in LLMOutcomes : response' = AnalyzeResponse(out)
    /\ pc' = "done"
    /\ UNCHANGED <<config, request, symbol_list, idx, quotes, calls, fetched,
                   results, llm_calls, date_str, formatted>>

\* the response is sent and everything built for the request is dropped
Complete ==
    /\ pc = "done"
    /\ request' = NoRequest
    /\ pc' = "idle"
    /\ symbol_list' = <<>>
    /\ idx' = 0
    /\ quotes' = <<>>
    /\ calls' = <<>>
    /\ fetched' = NoFetch
    /\ results' = <<>>
    /\ llm_calls' = <<>>
    /\ response' = NoResponse
    /\ UNCHANGED <<config, date_str, formatted>>

Next ==
    \/ Startup
    \/ RootRequest
    \/ ChartRequest
    \/ ChartReturn
    \/ QuoteRequest
    \/ QuoteReturn
    \/ BatchRequest
    \/ BatchReturn
    \/ AnalyzeStockRequest
    \/ LLMReturn
    \/ Complete

Spec == Init /\ [][Next]_vars

----------------------------------------------------------------------------
(* format_date on its own *)

DateAlphabet == { "1", "-" }
ShortAlphabet == { "1", "-", "x" }

DateInputs ==
    StringsOfLen(DateAlphabet, 10)
    \cup UNION { StringsOfLen(ShortAlphabet, n) : n \in 0..MaxShortLen }
    \cup { Iso0305, Iso1001, Loose, Slashed,
           <<"a","b","-","c","d","-","e","f","g","h">>,
           <<"2","0","2","4","-","0","3","-","0","5","T">>,
           <<"2","4","-","0","3","-","0","5">> }

InitDate ==
    /\ env = [n \in EnvNames |-> "sk-live"]
    /\ phase = "serving"
    /\ ALPHA_VANTAGE_API_KEY = "sk-live"
    /\ GROQ_API_KEY = "sk-live"
    /\ llm = get_chat_llm("sk-live")
    /\ Idle
    /\ date_str \in DateInputs
    /\ formatted = [done |-> FALSE, out |-> <<>>]

\* main.py:246-247: format_date is applied to the string
FormatDate ==
    /\ ~formatted.done
    /\ formatted' = [done |-> TRUE, out |-> format_date(date_str)]
    /\ UNCHANGED <<config, request, pc, symbol_list, idx, quotes, calls,
                   fetched, results, llm_calls, response, date_str>>

NextDate == FormatDate

SpecDate == InitDate /\ [][NextDate]_vars

----------------------------------------------------------------------------
(* Properties *)

BatchDone == request.endpoint = "batch" /\ pc = "done"
ChartDone == request.endpoint = "chart" /\ pc = "done"
ChartOK == ChartDone /\ response.status = 200

\* the quotes a batch response should carry: one per entry whose upstream
\* answer was usable, in the order of the list
RECURSIVE ExpectedQuotes(_)
ExpectedQuotes(i) ==
    IF i > Len(results) THEN <<>>
    ELSE (IF results[i].ok
          THEN << [symbol |-> symbol_list[i],
                   price |-> Round2(results[i].quote.price.v),
                   change |-> Round2(results[i].quote.change.v),
                   changePercent |-> Round2(results[i].quote.changePercent.v)] >>
          ELSE <<>>) \o ExpectedQuotes(i + 1)

\* C1: a batch response is 200 with exactly the quotes of the entries that
\* succeeded, in request order, when at least one entry succeeded, and it is
\* 404 exactly when every entry failed.
C1_BatchPartialSuccess ==
    BatchDone =>
        LET succeeded == { i \in 1..Len(results) : results[i].ok }
        IN  /\ Len(results) = Len(symbol_list)
            /\ response.status \in {200, 404}
            /\ (response.status = 404) <=> (succeeded = {})
            /\ succeeded # {} =>
                /\ response.body.t = "quotes"
                /\ response.body.quotes = ExpectedQuotes(1)

\* a batch whose first entry failed and whose second succeeded
C1_Witness ==
    /\ BatchDone
    /\ Len(results) >= 2
    /\ ~results[1].ok /\ results[2].ok
    /\ response.status = 200
    /\ Len(response.body.quotes) = 1

IsHttp(r, status) == r.t = "http" /\ r.status = status

\* C2 as stated: each sentinel key of a decoded body yields its own status
\* (error 404, note 429, information 429) and the body is returned exactly
\* when none of the three keys is present.
C2_EachSentinelItsStatus ==
    fetched.outcome.t \in {"object", "scalar"} =>
        LET keys == fetched.outcome.keys
            r == fetched.result
        IN  /\ "Error Message" \in keys => IsHttp(r, 404)
            /\ "Note" \in keys => IsHttp(r, 429)
            /\ "Information" \in keys => IsHttp(r, 429)
            /\ (r.t = "return" /\ r.data = fetched.outcome)
                   <=> (keys \cap Sentinels = {})

\* C2 amended: the sentinel keys of a decoded object are tested in the order
\* error, note, information and the first one present decides (404, 429,
\* 429); the object is returned unmodified exactly when none is present; a
\* body that decodes to null, a number or a boolean raises a TypeError.
C2_FirstSentinelDecides ==
    LET o == fetched.outcome
        r == fetched.result
    IN  /\ o.t = "object" =>
            /\ "Error Message" \in o.keys =>
                   IsHttp(r, 404) /\ r.detail.msg = "Stock symbol not found"
            /\ ("Error Message" \notin o.keys /\ "Note" \in o.keys) =>
                   IsHttp(r, 429) /\ r.detail.msg = "API rate limit exceeded"
            /\ (o.keys = {"Information"}) =>
                   IsHttp(r, 429) /\ r.detail.msg = "API call frequency limit reached"
            /\ (o.keys = {}) <=> (r.t = "return")
            /\ r.t = "return" => r.data = o
        /\ o.t = "scalar" => (r.t = "exc" /\ r.exc = "TypeError")

\* a body with both the error and the note key was classified
C2_Witness ==
    /\ fetched.outcome.t = "object"
    /\ {"Error Message", "Note"} \subseteq fetched.outcome.keys
    /\ IsHttp(fetched.result, 404)

\* C3: on the chart and the single-quote endpoint a failure of the fetch is
\* answered as raised: transport or timeout 503, error sentinel 404, note or
\* information sentinel 429, never another status and never 200; the other
\* endpoints that answer without a fetch never issue one.
C3_UpstreamFailuresPropagate ==
    /\ (pc = "done" /\ request.endpoint \in {"chart", "quote"}
          /\ fetched.result.t # "return") =>
        LET o == fetched.outcome
            r == fetched.result
        IN  /\ response.status # 200
            /\ o.t \in {"timeout", "connect"} => response.status = 503
            /\ (o.t = "object" /\ "Error Message" \in o.keys) => response.status = 404
            /\ (o.t = "object" /\ o.keys # {} /\ "Error Message" \notin o.keys) =>
                   response.status = 429
            /\ r.t = "http" =>
                /\ response.status = r.status
                /\ response.body.t = "detail"
                /\ response.body.detail = r.detail
            /\ r.t = "exc" => response.status = 500
    /\ request.endpoint \in {"root", "analyze"} => (calls = <<>> /\ fetched = NoFetch)

\* the chart endpoint answered a timed-out fetch
C3_Witness ==
    /\ ChartDone
    /\ fetched.outcome.t = "timeout"
    /\ response.status = 503

\* C4: a batch request issues its fetches one at a time in list order, one
\* per entry whether it fails or not, and responds only after the last; no
\* endpoint issues a fetch or an LLM call twice.
C4_SequentialNoRetry ==
    /\ request.endpoint = "batch" =>
        /\ Len(calls) <= Len(symbol_list)
        /\ \A k \in 1..Len(calls) :
              calls[k].symbol = symbol_list[k] /\ calls[k].function = "GLOBAL_QUOTE"
        /\ pc = "fetching" => (Len(results) = Len(calls) - 1 /\ response = NoResponse)
        /\ pc = "done" =>
              (Len(calls) = Len(symbol_list) /\ Len(results) = Len(symbol_list))
    /\ request.endpoint \in {"chart", "quote"} => Len(calls) = 1
    /\ request.endpoint = "analyze" => calls = <<>>
    /\ Len(llm_calls) <= 1

\* a batch of at least two entries whose first entry failed has been answered
C4_Witness ==
    /\ BatchDone
    /\ Len(symbol_list) >= 2
    /\ ~results[1].ok
    /\ Len(calls) = Len(symbol_list)

AnalyzeDone == request.endpoint = "analyze" /\ pc = "done"

\* C5 as stated: every failed analyze request, malformed bodies included,
\* is answered 500.
C5_EveryFailureIs500 ==
    (AnalyzeDone /\ response.status # 200) => response.status = 500

\* C5 amended: a body that does not validate against AnalyzeRequest (a
\* required field missing or of the wrong type) is answered 422 by the
\* framework before the handler runs and without an LLM call; every failure
\* inside the handler (priceData elements that are not records, closes that
\* are not numbers, an LLM failure) is answered 500 carrying the exception
\* message; the LLM is invoked at most once per request.
C5_HandlerFailuresAre500 ==
    /\ Len(llm_calls) <= 1
    /\ AnalyzeDone =>
        LET body == request.body
            valid == /\ body.symbol.k = "str" /\ body.userQuery.k = "str"
                     /\ body.timeRange.k = "dict" /\ body.priceData.k = "list"
            records == \A i \in 1..Len(body.priceData.v) :
                           body.priceData.v[i].k = "dict"
        IN  /\ response.status \in {200, 422, 500}
            /\ ~valid <=> response.status = 422
            /\ ~valid => llm_calls = <<>>
            /\ (valid /\ ~records) =>
                   (response.status = 500 /\ llm_calls = <<>>)
            /\ response.status = 500 =>
                /\ response.body.detail.msg = "Analysis failed: "
                /\ response.body.detail.arg \in
                       { <<m>> : m \in {"AttributeError", "TypeError"}
                                      \cup { o.text : o \in { x \in LLMOutcomes :
                                                                 x.t = "raise" } } }
                /\ llm_calls = <<>> =>
                       response.body.detail.arg = <<BuildPrompt(body).raised>>
            /\ response.status = 200 => Len(llm_calls) = 1

\* the LLM failed and the request was answered 500
C5_Witness ==
    /\ AnalyzeDone
    /\ Len(llm_calls) = 1
    /\ response.status = 500

KeysPresent ==
    /\ ~Falsy(ALPHA_VANTAGE_API_KEY)
    /\ ~Falsy(GROQ_API_KEY)
    /\ ~Falsy(llm.groq_api_key)

\* C6: with a secret missing the process never serves; while a request is
\* handled both keys are present, every upstream and LLM call carries a
\* present key, and the keys do not change once the process serves.
C6_FailFast ==
    /\ [](/\ (\E n \in EnvNames : Falsy(env[n])) => phase # "serving"
          /\ pc # "idle" => phase = "serving"
          /\ phase = "serving" => KeysPresent
          /\ \A k \in 1..Len(calls) : ~Falsy(calls[k].apikey)
          /\ \A k \in 1..Len(llm_calls) : ~Falsy(llm_calls[k].groq_api_key))
    /\ [][phase = "serving" =>
            /\ phase' = "serving"
            /\ ALPHA_VANTAGE_API_KEY' = ALPHA_VANTAGE_API_KEY
            /\ GROQ_API_KEY' = GROQ_API_KEY
            /\ llm' = llm]_vars

\* a request that called the provider has been answered
C6_Witness ==
    /\ phase = "serving"
    /\ pc = "done"
    /\ calls # <<>>
    /\ KeysPresent

Digits == {"0", "1", "2", "3", "4", "5", "6", "7", "8", "9"}

\* exactly YYYY-MM-DD
IsoShape(s) ==
    /\ Len(s) = 10
    /\ s[5] = "-" /\ s[8] = "-"
    /\ \A i \in {1, 2, 3, 4, 6, 7, 9, 10} : s[i] \in Digits

\* C7: format_date turns YYYY-MM-DD into DD-MM-YYYY and returns every other
\* string unchanged.
C7_OnlyIsoReformatted ==
    formatted.done =>
        IF IsoShape(date_str)
        THEN formatted.out = SubSeq(date_str, 9, 10) \o <<"-">>
                             \o SubSeq(date_str, 6, 7) \o <<"-">>
                             \o SubSeq(date_str, 1, 4)
        ELSE formatted.out = date_str

Digit(c) == Ord(c) - 48

\* the calendar date of an ISO key as the number YYYYMMDD
DateNumber(s) ==
    LET d(i) == Digit(s[i])
    IN  (d(1) * 1000 + d(2) * 100 + d(3) * 10 + d(4)) * 10000
        + (d(6) * 10 + d(7)) * 100 + d(9) * 10 + d(10)

\* C8: in a successful chart response the candle times are strictly
\* ascending, are exactly the keys of the provider's time series, each once,
\* and the volume bars have the same times at the same indices.
C8_ChartDates ==
    ChartOK =>
        LET cd == response.body.candleData
            vd == response.body.volumeData
            ts == fetched.outcome.payload.series
        IN  /\ \A i \in 1..(Len(cd) - 1) :
                  /\ StrLess(cd[i].time, cd[i + 1].time)
                  /\ DateNumber(cd[i].time) < DateNumber(cd[i + 1].time)
            /\ { cd[i].time : i \in 1..Len(cd) } = DOMAIN ts
            /\ Len(cd) = Cardinality(DOMAIN ts)
            /\ Len(vd) = Len(cd)
            /\ \A i \in 1..Len(cd) : vd[i].time = cd[i].time

\* a chart of at least two days was returned
C8_Witness ==
    /\ ChartOK
    /\ Len(response.body.candleData) >= 2

\* C9: whatever range_period a chart request carries, the GET issued, the
\* status, candleData, volumeData and dataType are those of the same request
\* with any other range_period, and requestedRange echoes the value given.
C9_RangeOnlyEchoed ==
    (request.endpoint = "chart") =>
        /\ \A rp \in RangeInputs : calls = <<ChartCall(request.symbol, rp)>>
        /\ calls[1].outputsize = "full"
        /\ pc = "done" =>
            \A rp \in RangeInputs :
                LET other == get_stock_chart(request.symbol, rp, fetched.result)
                IN  /\ other.status = response.status
                    /\ response.status # 200 => other = response
                    /\ response.status = 200 =>
                        /\ other.body.candleData = response.body.candleData
                        /\ other.body.volumeData = response.body.volumeData
                        /\ other.body.dataType = response.body.dataType
                        /\ other.body.requestedRange = rp
                        /\ response.body.requestedRange = request.range_period

\* a chart asked with a range hint was returned with data
C9_Witness ==
    /\ ChartOK
    /\ request.range_period = "1M"
    /\ response.body.requestedRange = "1M"
    /\ Len(response.body.candleData) >= 1

\* C10 as stated: the bar is "up" exactly when the emitted close is at least
\* the emitted open.
C10_ColorMatchesEmittedCandle ==
    ChartOK =>
        \A i \in 1..Len(response.body.candleData) :
            (response.body.volumeData[i].color = UpColor)
                <=> (response.body.candleData[i].close >= response.body.candleData[i].open)

\* C10 amended: the bar is "up" exactly when the unrounded adjusted close is
\* at least the unrounded scaled open; an "up" bar always has an emitted
\* close at least the emitted open, and a "down" bar may have one too when
\* the two differ by less than the rounding step.
C10_ColorFromUnrounded ==
    ChartOK =>
        \A i \in 1..Len(response.body.candleData) :
            LET cd == response.body.candleData[i]
                vd == response.body.volumeData[i]
                row == fetched.outcome.payload.series[cd.time]
                split == IF row.split.k = "absent" THEN 1000 ELSE row.split.v
                up == IF row.close.v # 0
                      THEN row.adjclose.v * row.close.v >= row.open.v * row.adjclose.v
                      ELSE row.adjclose.v * 1000 >= row.open.v * split
            IN  /\ vd.color \in {UpColor, DownColor}
                /\ (vd.color = UpColor) <=> up
                /\ vd.color = UpColor => cd.close >= cd.open

\* a "down" bar beside a candle whose emitted close equals its emitted open
C10_Witness ==
    /\ ChartOK
    /\ \E i \in 1..Len(response.body.candleData) :
          /\ response.body.volumeData[i].color = DownColor
          /\ response.body.candleData[i].close = response.body.candleData[i].open

====
